---- MODULE Spec2Model ----
(***************************************************************************)
(* Model of luma.gl's Program resource (src/src/webgl/program.js): the     *)
(* linked shader program, its attribute/uniform introspection, and its     *)
(* binding operations setBuffers, unsetBuffers, setUniforms and draw,      *)
(* acting on one graphics context.                                         *)
(***************************************************************************)
EXTENDS Integers, Sequences, FiniteSets, TLC

(***************************************************************************)
(* Values of the host language and of the graphics API.                    *)
(***************************************************************************)
Undefined == "undefined"
Null == "null"

ARRAY_BUFFER == "ARRAY_BUFFER"
ELEMENT_ARRAY_BUFFER == "ELEMENT_ARRAY_BUFFER"
UNSIGNED_SHORT == "UNSIGNED_SHORT"
UNSIGNED_INT == "UNSIGNED_INT"
FLOAT == "FLOAT"
TRIANGLES == "TRIANGLES"
LINES == "LINES"

\* Bound: the largest number of entries of a buffer map passed to setBuffers.
MaxBuffers == 2

\* Bound: the largest number of entries of a uniform map passed to setUniforms.
MaxUniforms == 2

\* Bound: the number of binding calls made on a program after it is linked.
MaxCalls == 2

\* Bound: the number of calls made after linking where setUniforms is among them.
MaxUniformCalls == 3

(***************************************************************************)
(* Collaborators: buffer objects (target, layout.instanced, layout.type)   *)
(* and texture objects. NoBuffer and NoTexture stand for null.             *)
(***************************************************************************)
Buffer(id, target, instanced, type) ==
  [id |-> id, target |-> target, layout |-> [instanced |-> instanced, type |-> type]]

NoBuffer == Buffer(Null, Null, FALSE, Null)

Buffers ==
  { Buffer("positions", ARRAY_BUFFER, FALSE, FLOAT),
    Buffer("offsets", ARRAY_BUFFER, TRUE, FLOAT),
    Buffer("shortIndices", ELEMENT_ARRAY_BUFFER, FALSE, UNSIGNED_SHORT),
    Buffer("intIndices", ELEMENT_ARRAY_BUFFER, FALSE, UNSIGNED_INT) }

Value(kind, v) == [kind |-> kind, v |-> v]

Textures == { Value("texture", "t1"), Value("texture", "t2") }

NoTexture == Value("texture", Null)

\* uniform instanceof Texture
IsTexture(uniform) == uniform.kind = "texture"

\* Non-texture uniform values.
PlainValues == { Value("number", "7") }

\* Names a caller may use as keys of a buffer map.
BufferNames == {"a", "b", "i", "j"}

\* Names a caller may use as keys of a uniform map.
UniformNames == {"uSampler", "uLights", "uOther"}

(***************************************************************************)
(* The native side: what the context reports for the linked shader pair.   *)
(* activeAttribs lists the active attributes by index, location is the     *)
(* result of getAttribLocation; activeUniforms lists the raw names of the  *)
(* active uniforms as token sequences (an array uniform ends in "[0]").    *)
(* The remaining fields are the other program parameters the context       *)
(* reports; the transform-feedback and uniform-block ones exist on the      *)
(* newer API tier only.                                                    *)
(***************************************************************************)
NativeContexts ==
  { [webgl2 |-> TRUE, linkStatus |-> TRUE, validateStatus |-> TRUE,
     activeAttribs |-> <<"a", "b">>,
     location |-> [n \in {"a", "b"} |-> IF n = "a" THEN 0 ELSE 1],
     activeUniforms |-> << <<"uSampler">>, <<"uLights", "[0]">> >>,
     deleteStatus |-> FALSE, attachedShaders |-> 2,
     feedbackMode |-> "INTERLEAVED_ATTRIBS", feedbackVaryings |-> 1, uniformBlocks |-> 1],
    [webgl2 |-> FALSE, linkStatus |-> TRUE, validateStatus |-> FALSE,
     activeAttribs |-> <<"b", "a">>,
     location |-> [n \in {"a", "b"} |-> IF n = "a" THEN 0 ELSE 2],
     activeUniforms |-> << <<"uSampler">> >>,
     deleteStatus |-> FALSE, attachedShaders |-> 2,
     feedbackMode |-> Null, feedbackVaryings |-> 0, uniformBlocks |-> 0],
    [webgl2 |-> TRUE, linkStatus |-> FALSE, validateStatus |-> FALSE,
     activeAttribs |-> <<"a">>,
     location |-> [n \in {"a"} |-> 0],
     activeUniforms |-> << <<"uSampler">> >>,
     deleteStatus |-> FALSE, attachedShaders |-> 2,
     feedbackMode |-> "SEPARATE_ATTRIBS", feedbackVaryings |-> 0, uniformBlocks |-> 0] }

\* Attribute slots of the context.
Slots == 0 .. 2

\* Texture units of the context.
Units == 0 .. 2

SeqRange(s) == { s[k] : k \in 1 .. Len(s) }

Max(x, y) == IF x >= y THEN x ELSE y

NOT_SUPPLIED == "not supplied"
NOT_USED == "not used"

WarnKinds == {NOT_SUPPLIED, NOT_USED}

VARIABLES
  native,               \* what the native context reports for this shader pair
  phase,                \* "uninit", "linked" or "failed"
  attributeLocations,   \* this._attributeLocations: name -> slot
  attributeCount,       \* this._attributeCount
  warn,                 \* this._warn: names already warned about
  filledLocations,      \* this._filledLocations: names marked filled
  uniformSetters,       \* this._uniformSetters: name -> [textureIndex]
  textureIndexCounter,  \* this._textureIndexCounter
  enabled,              \* context: slot -> vertex attribute array enabled
  slotBuffer,           \* context: slot -> buffer attached as data source
  divisor,              \* context: slot -> instancing divisor
  elementBinding,       \* context: buffer bound to ELEMENT_ARRAY_BUFFER
  activeProgram,        \* context: this program is the program in use
  textureUnits,         \* context: unit -> bound texture
  drawParams,           \* the drawParams object given to setBuffers
  op,                   \* the most recent operation
  args,                 \* its arguments
  threw,                \* the error it raised, or "none"
  calls,                \* the native commands it issued, in order
  logged,               \* how often each warning was logged: <<kind, name>> -> count
  history,              \* the calls made since the handle was created: [op, args, threw]
  id,                   \* this.id, as the list of its parts
  opts,                 \* this.opts: vs, fs and defaultUniforms as initialize stored them
  returned              \* the value the most recent query returned

vars ==
  << native, phase, attributeLocations, attributeCount, warn, filledLocations,
     uniformSetters, textureIndexCounter, enabled, slotBuffer, divisor,
     elementBinding, activeProgram, textureUnits, drawParams, op, args, threw,
     calls, logged, history, id, opts, returned >>

\* The number of calls made since the handle was created.
ncalls == Len(history)

(***************************************************************************)
(* Native commands, as recorded in calls.                                  *)
(***************************************************************************)
SlotCmd(cmd, slot) == [cmd |-> cmd, slot |-> slot]

SetBufferCmd(slot, buffer) == [cmd |-> "setBuffer", slot |-> slot, buffer |-> buffer]

SetDivisorCmd(slot, d) == [cmd |-> "setDivisor", slot |-> slot, divisor |-> d]

BindElementsCmd(buffer) == [cmd |-> "bindElements", buffer |-> buffer]

(***************************************************************************)
(* setBuffers                                                              *)
(***************************************************************************)

\* The state setBuffers and unsetBuffers read and write, as one record.
BindingState ==
  [attributeLocations |-> attributeLocations, attributeCount |-> attributeCount,
   warn |-> warn, filledLocations |-> filledLocations, logged |-> logged,
   enabled |-> enabled, slotBuffer |-> slotBuffer, divisor |-> divisor,
   elementBinding |-> elementBinding, drawParams |-> drawParams,
   threw |-> "none", calls |-> <<>>]

\* A buffer map: entries in insertion order, the order for..in visits them.
Entry(name, buffer) == [name |-> name, buffer |-> buffer]

MapNames(buffers) == { buffers[k].name : k \in 1 .. Len(buffers) }

\* buffers[name]
MapGet(buffers, name) ==
  LET hits == { k \in 1 .. Len(buffers) : buffers[k].name = name }
  IN IF hits = {} THEN NoBuffer ELSE buffers[CHOOSE k \in hits : TRUE].buffer

\* The buffer map as the caller's object: name -> buffer, order forgotten.
MapAsFunction(buffers) == [name \in MapNames(buffers) |-> MapGet(buffers, name)]

\* locations[location] = bufferName on a JS array: writing past the end grows it.
ArraySet(arr, index, value) ==
  [k \in 1 .. Max(Len(arr), index + 1) |->
     IF k = index + 1 THEN value ELSE IF k <= Len(arr) THEN arr[k] ELSE Undefined]

\* Mutant: a name that was warned about is no longer looked up.
HasLocationUnlessWarned(st, bufferName) ==
  bufferName \in DOMAIN st.attributeLocations /\ bufferName \notin st.warn

\* this._attributeLocations[bufferName] !== undefined
HasLocation(st, bufferName) == bufferName \in DOMAIN st.attributeLocations

Warn(st, kind, name) ==
  [st EXCEPT !.warn = @ \cup {name},
             !.logged = [@ EXCEPT ![<<kind, name>>] = @ + 1]]

\* Mutant: the set of warned names is never consulted.
AlreadyWarnedNever(st, name) == FALSE

\* !this._warn[name] is false: the name was warned about before
AlreadyWarned(st, name) == name \in st.warn

\* Mutant: a second index buffer is never noticed.
DuplicateElementsNever(acc, buffer) == FALSE

\* buffer.target === GL.ELEMENT_ARRAY_BUFFER && elements
DuplicateElements(acc, buffer) ==
  buffer.target = ELEMENT_ARRAY_BUFFER /\ acc.elements # Null

\* One iteration of the for..in loop of _sortBuffersByLocation.
SortEntry(acc, entry) ==
  LET bufferName == entry.name
      buffer == entry.buffer
  IN IF ~HasLocation(acc.st, bufferName)
       THEN IF DuplicateElements(acc, buffer)
              THEN [acc EXCEPT !.st.threw = "duplicate GL.ELEMENT_ARRAY_BUFFER"]
            ELSE IF buffer.target = ELEMENT_ARRAY_BUFFER
              THEN [acc EXCEPT !.elements = bufferName]
            ELSE IF ~AlreadyWarned(acc.st, bufferName)
              THEN [acc EXCEPT !.st = Warn(acc.st, NOT_USED, bufferName)]
            ELSE acc
       ELSE IF buffer.target = ELEMENT_ARRAY_BUFFER
              THEN [acc EXCEPT !.st.threw = "has both location and type gl.ELEMENT_ARRAY_BUFFER"]
            ELSE [acc EXCEPT !.locations =
                    ArraySet(@, acc.st.attributeLocations[bufferName], bufferName)]

RECURSIVE SortFrom(_, _, _)
SortFrom(acc, buffers, k) ==
  IF k > Len(buffers) \/ acc.st.threw # "none"
    THEN acc
    ELSE SortFrom(SortEntry(acc, buffers[k]), buffers, k + 1)

\* _sortBuffersByLocation: {locations, elements}, with the warnings it logs and
\* the error it throws carried in st.
SortBuffersByLocation(st, buffers) ==
  SortFrom([st |-> st, elements |-> Null,
            locations |-> [k \in 1 .. st.attributeCount |-> Undefined]],
           buffers, 1)

\* Mutant: a slot with no supplied buffer is left as it was.
BindLocationSkipMissing(st, buffers, locations, location) ==
  LET bufferName == locations[location + 1]
  IN IF bufferName = Undefined
       THEN st
       ELSE LET buffer == MapGet(buffers, bufferName)
                d == IF buffer.layout.instanced THEN 1 ELSE 0
            IN [st EXCEPT !.enabled[location] = TRUE,
                          !.slotBuffer[location] = buffer,
                          !.divisor[location] = d,
                          !.calls = @ \o << SlotCmd("enable", location),
                                           SetBufferCmd(location, buffer.id),
                                           SetDivisorCmd(location, d) >>,
                          !.drawParams.isInstanced = buffer.layout.instanced,
                          !.filledLocations = @ \cup {bufferName}]

\* One iteration of the loop over locations in setBuffers.
BindLocation(st, buffers, locations, location) ==
  LET bufferName == locations[location + 1]
  IN IF bufferName = Undefined
       THEN [st EXCEPT !.enabled[location] = FALSE,
                       !.calls = Append(@, SlotCmd("disable", location))]
       ELSE LET buffer == MapGet(buffers, bufferName)
                d == IF buffer.layout.instanced THEN 1 ELSE 0
            IN [st EXCEPT !.enabled[location] = TRUE,
                          !.slotBuffer[location] = buffer,
                          !.divisor[location] = d,
                          !.calls = @ \o << SlotCmd("enable", location),
                                           SetBufferCmd(location, buffer.id),
                                           SetDivisorCmd(location, d) >>,
                          !.drawParams.isInstanced = buffer.layout.instanced,
                          !.filledLocations = @ \cup {bufferName}]

RECURSIVE BindFrom(_, _, _, _)
BindFrom(st, buffers, locations, location) ==
  IF location >= Len(locations)
    THEN st
    ELSE BindFrom(BindLocation(st, buffers, locations, location),
                  buffers, locations, location + 1)

\* SET ELEMENTS ARRAY BUFFER
BindElements(st, buffers, elements) ==
  IF elements # Null
    THEN LET buffer == MapGet(buffers, elements)
         IN [st EXCEPT !.elementBinding = buffer,
                       !.calls = Append(@, BindElementsCmd(buffer.id)),
                       !.drawParams.isIndexed = TRUE,
                       !.drawParams.indexType = buffer.layout.type]
    ELSE st

RECURSIVE WarnAll(_, _)
WarnAll(st, names) ==
  IF names = {}
    THEN st
    ELSE LET n == CHOOSE x \in names : TRUE
         IN WarnAll(Warn(st, NOT_SUPPLIED, n), names \ {n})

\* Mutant: the warning is logged but the name is not remembered as warned.
CheckBuffersLogOnly(st) ==
  [st EXCEPT !.logged =
     [w \in DOMAIN @ |->
        IF /\ w[1] = NOT_SUPPLIED
           /\ w[2] \in DOMAIN st.attributeLocations
           /\ w[2] \notin st.filledLocations
           /\ w[2] \notin st.warn
          THEN @[w] + 1 ELSE @[w]]]

\* _checkBuffers
CheckBuffers(st) ==
  WarnAll(st, { attributeName \in DOMAIN st.attributeLocations :
                  attributeName \notin st.filledLocations /\ ~AlreadyWarned(st, attributeName) })

\* if (clear) this._filledLocations = {}
ClearFilled(st, clear) ==
  IF clear THEN [st EXCEPT !.filledLocations = {}] ELSE st

\* Mutant: the draw parameters of the earlier call are kept.
ResetDrawParamsNever(st) == st

\* drawParams.isInstanced = false; isIndexed = false; indexType = null
ResetDrawParams(st) ==
  [st EXCEPT !.drawParams = [isInstanced |-> FALSE, isIndexed |-> FALSE, indexType |-> Null]]

\* Mutant: the slots sorted so far are bound before the error is raised.
SetBuffersOnBindBeforeThrow(st, buffers, clear, check) ==
  LET st1 == ResetDrawParams(ClearFilled([st EXCEPT !.threw = "none", !.calls = <<>>], clear))
      sorted == SortBuffersByLocation(st1, buffers)
      st2 == BindFrom(sorted.st, buffers, sorted.locations, 0)
      st3 == BindElements(st2, buffers, sorted.elements)
  IN IF sorted.st.threw # "none"
       THEN st2
       ELSE IF check THEN CheckBuffers(st3) ELSE st3

\* setBuffers(buffers, {clear, check, drawParams}) run on binding state st.
SetBuffersOn(st, buffers, clear, check) ==
  LET st1 == ResetDrawParams(ClearFilled([st EXCEPT !.threw = "none", !.calls = <<>>], clear))
      sorted == SortBuffersByLocation(st1, buffers)
  IN IF sorted.st.threw # "none"
       THEN sorted.st
       ELSE LET st2 == BindFrom(sorted.st, buffers, sorted.locations, 0)
                st3 == BindElements(st2, buffers, sorted.elements)
            IN IF check THEN CheckBuffers(st3) ELSE st3

\* Mutant: the loop of unsetBuffers starts at slot 0.
UnsetBuffersFromZero(st) ==
  [st EXCEPT !.enabled = [s \in Slots |-> IF s < st.attributeCount THEN FALSE ELSE @[s]],
             !.elementBinding = NoBuffer,
             !.threw = "none",
             !.calls = [k \in 1 .. st.attributeCount |-> SlotCmd("disable", k - 1)]
                         \o << BindElementsCmd(Null) >>]

\* unsetBuffers() run on binding state st.
UnsetBuffersOn(st) ==
  [st EXCEPT !.enabled = [s \in Slots |->
                            IF s >= 1 /\ s < st.attributeCount THEN FALSE ELSE @[s]],
             !.elementBinding = NoBuffer,
             !.threw = "none",
             !.calls = [k \in 1 .. Max(st.attributeCount - 1, 0) |-> SlotCmd("disable", k)]
                         \o << BindElementsCmd(Null) >>]

\* The buffer maps callers pass: up to MaxBuffers entries under distinct names.
RECURSIVE MapsOfLen(_)
MapsOfLen(n) ==
  IF n = 0
    THEN { <<>> }
    ELSE { Append(m, Entry(name, buffer)) :
             m \in MapsOfLen(n - 1), name \in BufferNames, buffer \in Buffers }

BufferMaps ==
  { m \in UNION { MapsOfLen(n) : n \in 0 .. MaxBuffers } :
      Cardinality(MapNames(m)) = Len(m) }

(***************************************************************************)
(* setUniforms                                                             *)
(***************************************************************************)
BindTextureCmd(texture, unit) == [cmd |-> "bindTexture", texture |-> texture, unit |-> unit]

SamplerCmd(name, unit) == [cmd |-> "setUniform", name |-> name, unit |-> unit]

UniformCmd(name, value) == [cmd |-> "setUniform", name |-> name, value |-> value]

\* The state setUniforms reads and writes, as one record.
UniformState ==
  [uniformSetters |-> uniformSetters, textureIndexCounter |-> textureIndexCounter,
   textureUnits |-> textureUnits, threw |-> "none", calls |-> <<>>]

\* this._uniformSetters[uniformName] is truthy
HasSetter(st, uniformName) == uniformName \in DOMAIN st.uniformSetters

\* Mutant: a texture unit is handed out on every call, not only on first use.
AssignTextureIndexAlways(st, uniformName) ==
  [st EXCEPT !.uniformSetters[uniformName].textureIndex = << st.textureIndexCounter >>,
             !.textureIndexCounter = @ + 1]

\* Mutant: the counter is not advanced when a texture unit is handed out.
AssignTextureIndexNoIncrement(st, uniformName) ==
  IF st.uniformSetters[uniformName].textureIndex = <<>>
    THEN [st EXCEPT !.uniformSetters[uniformName].textureIndex = << st.textureIndexCounter >>]
    ELSE st

\* if (uniformSetter.textureIndex === undefined)
\*   uniformSetter.textureIndex = this._textureIndexCounter++
AssignTextureIndex(st, uniformName) ==
  IF st.uniformSetters[uniformName].textureIndex = <<>>
    THEN [st EXCEPT !.uniformSetters[uniformName].textureIndex = << st.textureIndexCounter >>,
                    !.textureIndexCounter = @ + 1]
    ELSE st

\* Mutant: a texture is bound to the next free unit before the setter is looked up.
SetUniformBindFirst(st, uniformName, uniform) ==
  IF HasSetter(st, uniformName)
    THEN IF IsTexture(uniform)
           THEN LET st1 == AssignTextureIndex(st, uniformName)
                    textureIndex == st1.uniformSetters[uniformName].textureIndex[1]
                IN [st1 EXCEPT !.textureUnits[textureIndex] = uniform,
                               !.calls = @ \o << BindTextureCmd(uniform.v, textureIndex),
                                                SamplerCmd(uniformName, textureIndex) >>]
           ELSE [st EXCEPT !.calls = Append(@, UniformCmd(uniformName, uniform.v))]
    ELSE IF IsTexture(uniform)
           THEN [st EXCEPT !.textureUnits[st.textureIndexCounter] = uniform,
                           !.calls = Append(@, BindTextureCmd(uniform.v, st.textureIndexCounter)),
                           !.textureIndexCounter = @ + 1]
           ELSE st

\* One iteration of the for..in loop of setUniforms.
SetUniform(st, uniformName, uniform) ==
  IF HasSetter(st, uniformName)
    THEN IF IsTexture(uniform)
           THEN LET st1 == AssignTextureIndex(st, uniformName)
                    textureIndex == st1.uniformSetters[uniformName].textureIndex[1]
                IN [st1 EXCEPT !.textureUnits[textureIndex] = uniform,
                               !.calls = @ \o << BindTextureCmd(uniform.v, textureIndex),
                                                SamplerCmd(uniformName, textureIndex) >>]
           ELSE [st EXCEPT !.calls = Append(@, UniformCmd(uniformName, uniform.v))]
    ELSE st

RECURSIVE SetUniformsFrom(_, _, _)
SetUniformsFrom(st, uniforms, k) ==
  IF k > Len(uniforms)
    THEN st
    ELSE SetUniformsFrom(SetUniform(st, uniforms[k].name, uniforms[k].value),
                         uniforms, k + 1)

\* setUniforms(uniforms) run on uniform state st.
SetUniformsOn(st, uniforms) == SetUniformsFrom(st, uniforms, 1)

UniformEntry(name, value) == [name |-> name, value |-> value]

RECURSIVE UniformMapsOfLen(_)
UniformMapsOfLen(n) ==
  IF n = 0
    THEN { <<>> }
    ELSE { Append(m, UniformEntry(name, value)) :
             m \in UniformMapsOfLen(n - 1), name \in UniformNames,
             value \in Textures \cup PlainValues }

\* The uniform maps callers pass: up to MaxUniforms entries under distinct names.
UniformMaps ==
  { m \in UNION { UniformMapsOfLen(n) : n \in 0 .. MaxUniforms } :
      Cardinality({ m[k].name : k \in 1 .. Len(m) }) = Len(m) }

(***************************************************************************)
(* draw                                                                    *)
(***************************************************************************)
UseProgramCmd == [cmd |-> "useProgram"]

\* Mutant: the instanced branch does not look at isIndexed.
DrawCallInstancedFirst(p) ==
  IF p.isInstanced
    THEN [cmd |-> "drawArraysInstanced", mode |-> p.drawMode, first |-> p.offset,
          count |-> p.vertexCount, instanceCount |-> p.instanceCount]
  ELSE IF p.isIndexed
    THEN [cmd |-> "drawElements", mode |-> p.drawMode, count |-> p.vertexCount,
          type |-> p.indexType, offset |-> p.offset]
  ELSE [cmd |-> "drawArrays", mode |-> p.drawMode, first |-> p.offset,
        count |-> p.vertexCount]

\* The native draw call draw() dispatches to.
DrawCall(p) ==
  IF p.isInstanced /\ p.isIndexed
    THEN [cmd |-> "drawElementsInstanced", mode |-> p.drawMode, count |-> p.vertexCount,
          type |-> p.indexType, offset |-> p.offset, instanceCount |-> p.instanceCount]
  ELSE IF p.isInstanced
    THEN [cmd |-> "drawArraysInstanced", mode |-> p.drawMode, first |-> p.offset,
          count |-> p.vertexCount, instanceCount |-> p.instanceCount]
  ELSE IF p.isIndexed
    THEN [cmd |-> "drawElements", mode |-> p.drawMode, count |-> p.vertexCount,
          type |-> p.indexType, offset |-> p.offset]
  ELSE [cmd |-> "drawArrays", mode |-> p.drawMode, first |-> p.offset,
        count |-> p.vertexCount]

\* The commands of draw(gl, params): use(), then the dispatched draw call. The
\* context is taken to offer the four draw primitives, the instanced ones through
\* the extension object gl.getExtension returns.
DrawCalls(p) == << UseProgramCmd, DrawCall(p) >>

\* The arguments callers pass to draw.
DrawArgs ==
  [drawMode : {TRIANGLES, LINES}, vertexCount : {6}, offset : {0, 2},
   isIndexed : BOOLEAN, indexType : {UNSIGNED_SHORT, UNSIGNED_INT},
   isInstanced : BOOLEAN, instanceCount : {100}]

(***************************************************************************)
(* Introspection and handle creation                                       *)
(***************************************************************************)
ACTIVE_ATTRIBUTES == "ACTIVE_ATTRIBUTES"
ACTIVE_UNIFORMS == "ACTIVE_UNIFORMS"
LINK_STATUS == "LINK_STATUS"
VALIDATE_STATUS == "VALIDATE_STATUS"
TRANSFORM_FEEDBACK_BUFFER_MODE == "TRANSFORM_FEEDBACK_BUFFER_MODE"
TRANSFORM_FEEDBACK_VARYINGS == "TRANSFORM_FEEDBACK_VARYINGS"
ACTIVE_UNIFORM_BLOCKS == "ACTIVE_UNIFORM_BLOCKS"
SEPARATE_ATTRIBS == "SEPARATE_ATTRIBS"
DELETE_STATUS == "DELETE_STATUS"
ATTACHED_SHADERS == "ATTACHED_SHADERS"

\* Program.PARAMETERS
PARAMETERS ==
  { DELETE_STATUS, LINK_STATUS, VALIDATE_STATUS, ATTACHED_SHADERS, ACTIVE_ATTRIBUTES,
    ACTIVE_UNIFORMS, TRANSFORM_FEEDBACK_BUFFER_MODE, TRANSFORM_FEEDBACK_VARYINGS,
    ACTIVE_UNIFORM_BLOCKS }

\* gl.getProgramParameter(handle, pname), answered by the native context.
GetProgramParameter(nat, pname) ==
  CASE pname = ACTIVE_ATTRIBUTES -> Len(nat.activeAttribs)
    [] pname = ACTIVE_UNIFORMS -> Len(nat.activeUniforms)
    [] pname = LINK_STATUS -> nat.linkStatus
    [] pname = VALIDATE_STATUS -> nat.validateStatus
    [] pname = DELETE_STATUS -> nat.deleteStatus
    [] pname = ATTACHED_SHADERS -> nat.attachedShaders
    [] pname = TRANSFORM_FEEDBACK_BUFFER_MODE -> nat.feedbackMode
    [] pname = TRANSFORM_FEEDBACK_VARYINGS -> nat.feedbackVaryings
    [] pname = ACTIVE_UNIFORM_BLOCKS -> nat.uniformBlocks

\* getParameter(pname)
GetParameter(nat, pname) ==
  IF ~nat.webgl2 /\ pname = ACTIVE_UNIFORMS THEN 0
  ELSE IF ~nat.webgl2 /\ pname = TRANSFORM_FEEDBACK_BUFFER_MODE THEN SEPARATE_ATTRIBS
  ELSE IF ~nat.webgl2 /\ pname = TRANSFORM_FEEDBACK_VARYINGS THEN 0
  ELSE IF ~nat.webgl2 /\ pname = ACTIVE_UNIFORM_BLOCKS THEN 0
  ELSE GetProgramParameter(nat, pname)

GetAttributeCount(nat) == GetParameter(nat, ACTIVE_ATTRIBUTES)

GetUniformCount(nat) == GetParameter(nat, ACTIVE_UNIFORMS)

\* _getAttributeLocations
GetAttributeLocations(nat) ==
  [name \in { nat.activeAttribs[k] : k \in 1 .. GetAttributeCount(nat) } |->
     nat.location[name]]

\* parseUniformName: strips the array suffix and flags the uniform as an array.
ParseUniformName(raw) ==
  [name |-> raw[1], isArray |-> Len(raw) > 1 /\ raw[Len(raw)] = "[0]"]

\* getUniformSetter: the setter, with its textureIndex field initially unset.
GetUniformSetter(raw, isArray) == [isArray |-> isArray, textureIndex |-> <<>>]

\* _getUniformSetters
GetUniformSetters(nat) ==
  LET parsed == [i \in 1 .. GetUniformCount(nat) |-> ParseUniformName(nat.activeUniforms[i])]
  IN [name \in { parsed[i].name : i \in DOMAIN parsed } |->
        LET i == CHOOSE j \in DOMAIN parsed :
                   parsed[j].name = name /\ \A h \in DOMAIN parsed : parsed[h].name = name => h <= j
        IN GetUniformSetter(nat.activeUniforms[i], parsed[i].isArray)]

\* _compileAndLink: const linked = gl.getParameter(this.handle, GL.LINK_STATUS)
Linked(nat) == GetProgramParameter(nat, LINK_STATUS)

(***************************************************************************)
(* initialize                                                              *)
(***************************************************************************)
\* A shader as the caller gives it: its identity and the name getName() returns
\* (Null when the shader is not named).
Shader(ident, name) == [ident |-> ident, name |-> name]

\* SHADERS.DEFAULT.vs and SHADERS.DEFAULT.fs
DEFAULT_VS == Shader("SHADERS.DEFAULT.vs", Null)
DEFAULT_FS == Shader("SHADERS.DEFAULT.fs", Null)

\* SHADERS.DEFAULT.defaultUniforms
DEFAULT_UNIFORMS == "SHADERS.DEFAULT.defaultUniforms"

\* The vs, fs and defaultUniforms options a caller may pass; a shader left out
\* is the default one, defaultUniforms left out is undefined.
VertexSources == { DEFAULT_VS, Shader("vsCube", "cube"), Shader("vsPlain", Null) }
FragmentSources == { DEFAULT_FS, Shader("fsPhong", "phong"), Shader("fsPlain", Null) }
DefaultUniformsArgs == { Undefined, "callerUniforms", "callerEmptyUniforms" }

\* this.opts before initialize has run.
NoOpts == [vs |-> Null, fs |-> Null, defaultUniforms |-> Undefined]

\* vs.getName() || fs.getName(), then `${programName}-program` or 'program'
ProgramName(vs, fs) ==
  LET programName == IF vs.name # Null THEN vs.name ELSE fs.name
  IN IF programName # Null THEN << programName, "-program" >> ELSE << "program" >>

\* uid(programName): the name with a counter appended.
Uid(programName) == Append(programName, "-uid")

\* vs === SHADERS.DEFAULT.vs || fs === SHADERS.DEFAULT.fs && defaultUniforms === undefined
AppliesDefaultUniforms(vs, fs, defaultUniforms) ==
  vs = DEFAULT_VS \/ (fs = DEFAULT_FS /\ defaultUniforms = Undefined)

\* new VertexShader(gl, vs), new FragmentShader(gl, fs)
VertexShader(vs) == [type |-> "VERTEX_SHADER", source |-> vs]
FragmentShader(fs) == [type |-> "FRAGMENT_SHADER", source |-> fs]

\* initialize({vs, fs, defaultUniforms}): this.opts as it leaves them.
InitializeOpts(vs, fs, defaultUniforms) ==
  [vs |-> VertexShader(vs), fs |-> FragmentShader(fs),
   defaultUniforms |-> IF AppliesDefaultUniforms(vs, fs, defaultUniforms)
                         THEN DEFAULT_UNIFORMS ELSE defaultUniforms]

(***************************************************************************)
(* The state machine                                                       *)
(***************************************************************************)
NoWarnings == [w \in WarnKinds \X BufferNames |-> 0]

\* A caller's drawParams object before setBuffers has written to it.
NoDrawParams == [isInstanced |-> FALSE, isIndexed |-> FALSE, indexType |-> Undefined]

\* The vertex-attribute state of a context no program has bound anything in.
FreshContext ==
  [enabled |-> [s \in Slots |-> FALSE], slotBuffer |-> [s \in Slots |-> NoBuffer],
   divisor |-> [s \in Slots |-> 0], elementBinding |-> NoBuffer]

Init ==
  /\ native \in NativeContexts
  /\ phase = "uninit"
  /\ attributeLocations = << >>
  /\ attributeCount = 0
  /\ warn = {}
  /\ filledLocations = {}
  /\ uniformSetters = << >>
  /\ textureIndexCounter = 0
  /\ enabled = FreshContext.enabled
  /\ slotBuffer = FreshContext.slotBuffer
  /\ divisor = FreshContext.divisor
  /\ elementBinding = FreshContext.elementBinding
  /\ activeProgram = FALSE
  /\ textureUnits = [u \in Units |-> NoTexture]
  /\ drawParams = NoDrawParams
  /\ op = "new"
  /\ args = << >>
  /\ threw = "none"
  /\ calls = << >>
  /\ logged = NoWarnings
  /\ history = << >>
  /\ id = << >>
  /\ opts = NoOpts
  /\ returned = Undefined

\* _createHandle
CreateHandle ==
  /\ phase = "uninit"
  /\ op' = "createHandle"
  /\ args' = << >>
  /\ calls' = << >>
  /\ IF Linked(native)
       THEN /\ phase' = "linked"
            /\ threw' = "none"
            /\ attributeLocations' = GetAttributeLocations(native)
            /\ attributeCount' = GetAttributeCount(native)
            /\ warn' = {}
            /\ filledLocations' = {}
            /\ uniformSetters' = GetUniformSetters(native)
            /\ textureIndexCounter' = 0
       ELSE /\ phase' = "failed"
            /\ threw' = "Error linking"
            /\ UNCHANGED << attributeLocations, attributeCount, warn, filledLocations,
                            uniformSetters, textureIndexCounter >>
  /\ UNCHANGED << native, enabled, slotBuffer, divisor, elementBinding, activeProgram,
                  textureUnits, drawParams, logged, history, id, opts, returned >>

\* initialize, run once by the constructor.
InitializeCall(vs, fs, defaultUniforms) ==
  /\ id = << >>
  /\ id' = Uid(ProgramName(vs, fs))
  /\ opts' = InitializeOpts(vs, fs, defaultUniforms)
  /\ op' = "initialize"
  /\ args' = [vs |-> vs, fs |-> fs, defaultUniforms |-> defaultUniforms]
  /\ threw' = "none"
  /\ calls' = << >>
  /\ UNCHANGED << native, phase, attributeLocations, attributeCount, warn,
                  filledLocations, uniformSetters, textureIndexCounter, enabled,
                  slotBuffer, divisor, elementBinding, activeProgram, textureUnits,
                  drawParams, logged, history, returned >>

Initialize ==
  \E vs \in VertexSources, fs \in FragmentSources, defaultUniforms \in DefaultUniformsArgs :
    InitializeCall(vs, fs, defaultUniforms)

\* getParameter(pname) on the linked program.
GetParameterCall(pname) ==
  /\ phase = "linked"
  /\ returned' = GetParameter(native, pname)
  /\ op' = "getParameter"
  /\ args' = [pname |-> pname]
  /\ threw' = "none"
  /\ calls' = << >>
  /\ history' = Append(history, [op |-> op', args |-> args', threw |-> threw'])
  /\ UNCHANGED << native, phase, attributeLocations, attributeCount, warn,
                  filledLocations, uniformSetters, textureIndexCounter, enabled,
                  slotBuffer, divisor, elementBinding, activeProgram, textureUnits,
                  drawParams, logged, id, opts >>

GetParameterSome == \E pname \in PARAMETERS : GetParameterCall(pname)

SetBuffersCall(buffers, clear, check) ==
  /\ phase = "linked"
  /\ LET st == SetBuffersOn(BindingState, buffers, clear, check)
     IN /\ warn' = st.warn
        /\ filledLocations' = st.filledLocations
        /\ logged' = st.logged
        /\ enabled' = st.enabled
        /\ slotBuffer' = st.slotBuffer
        /\ divisor' = st.divisor
        /\ elementBinding' = st.elementBinding
        /\ drawParams' = st.drawParams
        /\ threw' = st.threw
        /\ calls' = st.calls
  /\ op' = "setBuffers"
  /\ args' = [buffers |-> MapAsFunction(buffers), clear |-> clear, check |-> check]
  /\ history' = Append(history, [op |-> op', args |-> args', threw |-> threw'])
  /\ UNCHANGED << native, phase, attributeLocations, attributeCount, uniformSetters,
                  textureIndexCounter, activeProgram, textureUnits, id, opts, returned >>

SetBuffers ==
  \E buffers \in BufferMaps, clear \in BOOLEAN, check \in BOOLEAN :
    SetBuffersCall(buffers, clear, check)

UnsetBuffers ==
  /\ phase = "linked"
  /\ LET st == UnsetBuffersOn(BindingState)
     IN /\ enabled' = st.enabled
        /\ elementBinding' = st.elementBinding
        /\ threw' = st.threw
        /\ calls' = st.calls
  /\ op' = "unsetBuffers"
  /\ args' = << >>
  /\ history' = Append(history, [op |-> op', args |-> args', threw |-> threw'])
  /\ UNCHANGED << native, phase, attributeLocations, attributeCount, warn,
                  filledLocations, uniformSetters, textureIndexCounter, slotBuffer,
                  divisor, activeProgram, textureUnits, drawParams, logged, id, opts,
                  returned >>

SetUniformsCall(uniforms) ==
  /\ phase = "linked"
  /\ LET st == SetUniformsOn(UniformState, uniforms)
     IN /\ uniformSetters' = st.uniformSetters
        /\ textureIndexCounter' = st.textureIndexCounter
        /\ textureUnits' = st.textureUnits
        /\ threw' = st.threw
        /\ calls' = st.calls
  /\ op' = "setUniforms"
  /\ args' = [uniforms |-> uniforms]
  /\ history' = Append(history, [op |-> op', args |-> args', threw |-> threw'])
  /\ UNCHANGED << native, phase, attributeLocations, attributeCount, warn,
                  filledLocations, enabled, slotBuffer, divisor, elementBinding,
                  activeProgram, drawParams, logged, id, opts, returned >>

SetUniforms == \E uniforms \in UniformMaps : SetUniformsCall(uniforms)

DrawCallWith(p) ==
  /\ phase = "linked"
  /\ activeProgram' = TRUE
  /\ calls' = DrawCalls(p)
  /\ threw' = "none"
  /\ op' = "draw"
  /\ args' = p
  /\ history' = Append(history, [op |-> op', args |-> args', threw |-> threw'])
  /\ UNCHANGED << native, phase, attributeLocations, attributeCount, warn,
                  filledLocations, uniformSetters, textureIndexCounter, enabled,
                  slotBuffer, divisor, elementBinding, textureUnits, drawParams, logged,
                  id, opts, returned >>

Draw == \E p \in DrawArgs : DrawCallWith(p)

\* setBuffers with the default options and at most one array buffer under "a".
SetBuffersSome ==
  \E buffers \in { m \in BufferMaps : Len(m) = 0 \/ (Len(m) = 1 /\ m[1].name = "a"
                                                      /\ m[1].buffer.target = ARRAY_BUFFER) } :
    SetBuffersCall(buffers, TRUE, TRUE)

\* draw with each combination of isInstanced and isIndexed.
DrawSome ==
  \E p \in { q \in DrawArgs : /\ q.drawMode = TRIANGLES /\ q.offset = 0
                               /\ q.indexType = UNSIGNED_SHORT } :
    DrawCallWith(p)

\* Binding buffers: up to MaxCalls calls of setBuffers and unsetBuffers, with
\* every buffer map, with and without clear and check.
NextBuffers ==
  \/ CreateHandle
  \/ ncalls < MaxCalls /\ SetBuffers
  \/ ncalls < MaxCalls /\ UnsetBuffers

SpecBuffers == Init /\ [][NextBuffers]_vars

\* Setting uniforms: up to MaxUniformCalls calls, setUniforms with every uniform
\* map, interleaved with the other operations of the program.
NextUniforms ==
  \/ CreateHandle
  \/ ncalls < MaxUniformCalls /\ SetUniforms
  \/ ncalls < MaxUniformCalls /\ SetBuffersSome
  \/ ncalls < MaxUniformCalls /\ UnsetBuffers
  \/ ncalls < MaxUniformCalls /\ DrawSome

SpecUniforms == Init /\ [][NextUniforms]_vars

\* Drawing: up to MaxCalls calls of setBuffers and draw, with every draw argument.
NextDraw ==
  \/ CreateHandle
  \/ ncalls < MaxCalls /\ SetBuffersSome
  \/ ncalls < MaxCalls /\ Draw

SpecDraw == Init /\ [][NextDraw]_vars

\* Construction and introspection: initialize and handle creation in either
\* order, then up to MaxCalls parameter queries.
NextIntrospection ==
  \/ Initialize
  \/ CreateHandle
  \/ ncalls < MaxCalls /\ GetParameterSome

SpecIntrospection == Init /\ [][NextIntrospection]_vars

(***************************************************************************)
(* Properties                                                              *)
(***************************************************************************)
AttributeNames == DOMAIN attributeLocations

\* The names of a buffer map (name -> buffer) whose buffer declares the index target.
IndexTargets(buffers) ==
  { name \in DOMAIN buffers : buffers[name].target = ELEMENT_ARRAY_BUFFER }

\* The buffers of a buffer map that sit under the name of an attribute.
AttributeBuffers(buffers) == DOMAIN buffers \cap AttributeNames

\* A buffer map in some insertion order.
RECURSIVE InSomeOrder(_, _)
InSomeOrder(buffers, names) ==
  IF names = {}
    THEN << >>
    ELSE LET n == CHOOSE x \in names : TRUE
         IN << Entry(n, buffers[n]) >> \o InSomeOrder(buffers, names \ {n})

\* C1: after setBuffers returns, isInstanced is true exactly when at least one
\* buffer bound to an attribute slot in this call has layout.instanced set.
C1_IsInstancedIffAnyInstanced ==
  (op = "setBuffers" /\ threw = "none") =>
    (drawParams.isInstanced <=>
       \E name \in AttributeBuffers(args.buffers) : args.buffers[name].layout.instanced)

\* C2: setBuffers with the default options on a map holding two index-target
\* buffers fails and leaves filledLocations as it was before the call.
C2_TwoIndexBuffersLeaveFilled ==
  [][(op' = "setBuffers" /\ args'.clear /\ args'.check
        /\ Cardinality(IndexTargets(args'.buffers)) >= 2)
       => (threw' # "none" /\ filledLocations' = filledLocations)]_vars

\* The binding conflicts of a buffer map: two or more index-target buffers under
\* names of no attribute, or an index-target buffer under the name of an attribute.
BindingConflict(buffers) ==
  \/ Cardinality(IndexTargets(buffers) \ AttributeNames) >= 2
  \/ IndexTargets(buffers) \cap AttributeNames # {}

\* C3: setBuffers fails with a binding-conflict error exactly when the map holds
\* a binding conflict; names that match nothing do not make it fail.
C3_ThrowsIffBindingConflict ==
  op = "setBuffers" => (threw # "none" <=> BindingConflict(args.buffers))

C3_Witness ==
  /\ op = "setBuffers"
  /\ threw = "duplicate GL.ELEMENT_ARRAY_BUFFER"
  /\ IndexTargets(args.buffers) = {"i", "j"}

\* The uniform map entries of a setUniforms call that name a uniform setter.
KnownEntries(uniforms) ==
  { k \in 1 .. Len(uniforms) : uniforms[k].name \in DOMAIN uniformSetters }

\* The entries among them that pass a texture.
TextureEntries(uniforms) ==
  { k \in KnownEntries(uniforms) : IsTexture(uniforms[k].value) }

CountCmd(commands, cmd) ==
  Cardinality({ k \in 1 .. Len(commands) : commands[k].cmd = cmd })

\* C4: once a sampler's setter has a texture unit, every later setUniforms call
\* that passes a texture for it binds that texture to the same unit and sets the
\* sampler to the same unit.
C4_SamplerUnitStable ==
  [][\A n \in DOMAIN uniformSetters :
       uniformSetters[n].textureIndex # << >> =>
         LET unit == uniformSetters[n].textureIndex[1]
         IN /\ uniformSetters'[n].textureIndex = << unit >>
            /\ op' = "setUniforms" =>
                 \A k \in TextureEntries(args'.uniforms) :
                   args'.uniforms[k].name = n =>
                     /\ BindTextureCmd(args'.uniforms[k].value.v, unit) \in SeqRange(calls')
                     /\ textureUnits'[unit] = args'.uniforms[k].value
                     /\ \A c \in SeqRange(calls') :
                          (c.cmd = "setUniform" /\ c.name = n) => c = SamplerCmd(n, unit)
                     /\ SamplerCmd(n, unit) \in SeqRange(calls')]_vars

C4_Witness ==
  /\ phase = "linked"
  /\ op = "setUniforms"
  /\ "uSampler" \in DOMAIN uniformSetters
  /\ uniformSetters["uSampler"].textureIndex = << 0 >>
  /\ textureIndexCounter = 2
  /\ args.uniforms = << UniformEntry("uSampler", Value("texture", "t2")) >>
  /\ textureUnits[0] = Value("texture", "t2")
  /\ history[1].op = "setUniforms"
  /\ history[1].args.uniforms = << UniformEntry("uSampler", Value("texture", "t1")) >>

AssignedSamplers == { n \in DOMAIN uniformSetters : uniformSetters[n].textureIndex # << >> }

\* The texture units in use are pairwise distinct and are exactly 0 .. counter - 1.
UnitsAreDense ==
  /\ \A m, n \in AssignedSamplers :
       m # n => uniformSetters[m].textureIndex # uniformSetters[n].textureIndex
  /\ { uniformSetters[n].textureIndex[1] : n \in AssignedSamplers }
       = 0 .. (textureIndexCounter - 1)

\* The first entry of a uniform map that passes a texture for name n.
FirstUse(uniforms, n) ==
  CHOOSE k \in TextureEntries(uniforms) :
    /\ uniforms[k].name = n
    /\ \A h \in TextureEntries(uniforms) : uniforms[h].name = n => k <= h

\* A step hands out units in first-use order and never takes the counter back.
UnitsInFirstUseOrder ==
  /\ textureIndexCounter' >= textureIndexCounter
  /\ op' \in {"setBuffers", "unsetBuffers", "draw"} =>
       /\ textureIndexCounter' = textureIndexCounter
       /\ uniformSetters' = uniformSetters
  /\ op' = "setUniforms" =>
       LET new == { n \in DOMAIN uniformSetters :
                      /\ uniformSetters[n].textureIndex = << >>
                      /\ uniformSetters'[n].textureIndex # << >> }
       IN \A n \in new :
            uniformSetters'[n].textureIndex[1] =
              textureIndexCounter
                + Cardinality({ m \in new : FirstUse(args'.uniforms, m)
                                              < FirstUse(args'.uniforms, n) })

\* C5: the texture units of distinct samplers are pairwise distinct and are
\* exactly 0 .. textureIndexCounter - 1, handed out in first-use order; the counter
\* never decreases and setBuffers, unsetBuffers and draw leave it alone.
C5_UnitsDistinctDenseMonotonic ==
  [](UnitsAreDense) /\ [][UnitsInFirstUseOrder]_vars

C5_Witness ==
  /\ phase = "linked"
  /\ ncalls = 3
  /\ history[1].op = "setUniforms"
  /\ history[2].op = "setBuffers"
  /\ history[3].op = "setUniforms"
  /\ textureIndexCounter = 2
  /\ "uLights" \in DOMAIN uniformSetters
  /\ uniformSetters["uLights"].textureIndex = << 0 >>
  /\ uniformSetters["uSampler"].textureIndex = << 1 >>

\* C6: a uniform name of the map that has no setter causes no error and no native
\* call, and leaves the counter and every setter's textureIndex unchanged, also
\* when its value is a texture.
C6_UnknownUniformIsNoOp ==
  [][op' = "setUniforms" =>
       LET uniforms == args'.uniforms
           known == KnownEntries(uniforms)
           textures == TextureEntries(uniforms)
       IN /\ threw' = "none"
          /\ \A c \in SeqRange(calls') :
               c.cmd = "setUniform" => \E k \in known : uniforms[k].name = c.name
          /\ CountCmd(calls', "setUniform") = Cardinality(known)
          /\ CountCmd(calls', "bindTexture") = Cardinality(textures)
          /\ Len(calls') = Cardinality(known) + Cardinality(textures)
          /\ textureIndexCounter' = textureIndexCounter
               + Cardinality({ k \in textures :
                                 uniformSetters[uniforms[k].name].textureIndex = << >> })
          /\ DOMAIN uniformSetters' = DOMAIN uniformSetters
          /\ \A n \in DOMAIN uniformSetters :
               (\A k \in textures : uniforms[k].name # n) =>
                 uniformSetters'[n] = uniformSetters[n]
          /\ known = {} =>
               /\ calls' = << >>
               /\ textureUnits' = textureUnits
               /\ textureIndexCounter' = textureIndexCounter
               /\ uniformSetters' = uniformSetters]_vars

C6_Witness ==
  /\ phase = "linked"
  /\ op = "setUniforms"
  /\ DOMAIN uniformSetters # {}
  /\ args.uniforms = << UniformEntry("uOther", Value("texture", "t1")) >>
  /\ calls = << >>
  /\ threw = "none"
  /\ textureIndexCounter = 0

\* C7: after unsetBuffers every attribute slot from 1 to attributeCount - 1 is
\* disabled and the index-buffer binding is cleared; slot 0 keeps its state.
C7_UnsetBuffersDisablesFromOne ==
  [][op' = "unsetBuffers" =>
       /\ \A s \in Slots : (1 <= s /\ s < attributeCount) => ~enabled'[s]
       /\ elementBinding' = NoBuffer
       /\ enabled'[0] = enabled[0]]_vars

C7_Witness ==
  /\ op = "unsetBuffers"
  /\ ncalls = 2
  /\ history[1].op = "setBuffers"
  /\ DOMAIN history[1].args.buffers = {"a", "b"}
  /\ attributeLocations["b"] = 1
  /\ enabled[0]
  /\ ~enabled[1]
  /\ slotBuffer[1] # NoBuffer
  /\ elementBinding = NoBuffer

\* The native draw variant the dispatch table gives for the two flags.
NativeVariant(isInstanced, isIndexed) ==
  IF isInstanced /\ isIndexed THEN "drawElementsInstanced"
  ELSE IF isInstanced THEN "drawArraysInstanced"
  ELSE IF isIndexed THEN "drawElements"
  ELSE "drawArrays"

\* The offset a native draw command carries.
OffsetOf(c) == IF c.cmd \in {"drawArrays", "drawArraysInstanced"} THEN c.first ELSE c.offset

\* C8: draw makes the program the active one and then issues exactly one native
\* draw call, of the variant of the dispatch table, with the arguments passed.
C8_DrawDispatch ==
  op = "draw" =>
    /\ activeProgram
    /\ Len(calls) = 2
    /\ calls[1] = UseProgramCmd
    /\ calls[2].cmd = NativeVariant(args.isInstanced, args.isIndexed)
    /\ calls[2].mode = args.drawMode
    /\ calls[2].count = args.vertexCount
    /\ OffsetOf(calls[2]) = args.offset
    /\ args.isIndexed => calls[2].type = args.indexType
    /\ args.isInstanced => calls[2].instanceCount = args.instanceCount

C8_Witness ==
  /\ op = "draw"
  /\ args.isInstanced
  /\ ~args.isIndexed
  /\ args.vertexCount = 6
  /\ args.instanceCount = 100
  /\ calls[2].cmd = "drawArraysInstanced"
  /\ calls[2].count = 6
  /\ calls[2].instanceCount = 100

\* The bound state of the program and the context.
BoundState(st) ==
  [enabled |-> st.enabled, slotBuffer |-> st.slotBuffer, divisor |-> st.divisor,
   elementBinding |-> st.elementBinding, filledLocations |-> st.filledLocations,
   drawParams |-> st.drawParams]

\* The binding state of this program freshly linked, on a fresh context.
FreshBindingState ==
  [attributeLocations |-> attributeLocations, attributeCount |-> attributeCount,
   warn |-> {}, filledLocations |-> {}, logged |-> NoWarnings,
   enabled |-> FreshContext.enabled, slotBuffer |-> FreshContext.slotBuffer,
   divisor |-> FreshContext.divisor, elementBinding |-> FreshContext.elementBinding,
   drawParams |-> NoDrawParams, threw |-> "none", calls |-> << >>]

\* The state is the one setBuffers({}) leaves on a freshly linked program.
AfterEmptySetBuffers ==
  /\ phase = "linked"
  /\ ncalls = 1
  /\ op = "setBuffers"
  /\ DOMAIN args.buffers = {}
  /\ args.clear
  /\ args.check

\* C9: setBuffers({}) followed by setBuffers(map) with clear leaves the same bound
\* state as setBuffers(map) called once on the freshly linked program.
C9_EmptyThenMapEqualsMapOnce ==
  [][(AfterEmptySetBuffers /\ op' = "setBuffers" /\ args'.clear /\ threw' = "none")
       => BoundState(BindingState)'
            = BoundState(SetBuffersOn(FreshBindingState,
                                      InSomeOrder(args'.buffers, DOMAIN args'.buffers),
                                      TRUE, args'.check))]_vars

C9_Witness ==
  /\ phase = "linked"
  /\ ncalls = 2
  /\ history[1].op = "setBuffers"
  /\ DOMAIN history[1].args.buffers = {}
  /\ history[1].args.clear
  /\ history[1].args.check
  /\ op = "setBuffers"
  /\ args.clear
  /\ threw = "none"
  /\ filledLocations = {"a", "b"}
  /\ enabled[attributeLocations["a"]]
  /\ enabled[attributeLocations["b"]]

\* Every binding step the buffer map of the latest setBuffers call asks for is done.
BindingDone ==
  /\ \A n \in AttributeBuffers(args.buffers) :
       /\ enabled[attributeLocations[n]]
       /\ slotBuffer[attributeLocations[n]] = args.buffers[n]
       /\ n \in filledLocations
  /\ \A s \in Slots :
       (s < attributeCount /\ \A n \in AttributeBuffers(args.buffers) : attributeLocations[n] # s)
         => ~enabled[s]
  /\ \A n \in IndexTargets(args.buffers) :
       /\ elementBinding = args.buffers[n]
       /\ drawParams.isIndexed

\* C10: each of the two warnings is logged at most once per name, and a warning
\* never makes setBuffers throw or skip its remaining binding steps.
C10_WarnOncePerName ==
  /\ [](\A w \in DOMAIN logged : logged[w] <= 1)
  /\ [][(op' = "setBuffers" /\ logged' # logged) =>
          /\ threw' # "none" <=> BindingConflict(args'.buffers)
          /\ threw' = "none" => BindingDone']_vars

C10_Witness ==
  /\ op = "setBuffers"
  /\ ncalls = 2
  /\ threw = "none"
  /\ history[1].op = "setBuffers"
  /\ history[1].args = args
  /\ args.check
  /\ DOMAIN args.buffers = {"b", "i"}
  /\ args.buffers["i"].target = ARRAY_BUFFER
  /\ logged[<<NOT_USED, "i">>] = 1
  /\ logged[<<NOT_SUPPLIED, "a">>] = 1
  /\ enabled[attributeLocations["b"]]

\* C19: initialize applies the built-in default uniforms exactly when the vertex
\* or the fragment shader is the default shader and the caller gave no
\* defaultUniforms; defaultUniforms given by the caller are stored as given.
C19_DefaultUniformsOnlyWhenNoneGiven ==
  op = "initialize" =>
    /\ (opts.defaultUniforms = DEFAULT_UNIFORMS) <=>
         ((args.vs = DEFAULT_VS \/ args.fs = DEFAULT_FS) /\ args.defaultUniforms = Undefined)
    /\ args.defaultUniforms # Undefined => opts.defaultUniforms = args.defaultUniforms

\* The parameters that exist on the newer API tier only.
NewerTierParameters ==
  { TRANSFORM_FEEDBACK_BUFFER_MODE, TRANSFORM_FEEDBACK_VARYINGS, ACTIVE_UNIFORM_BLOCKS }

\* C20: on the older API tier getParameter returns 0 for the uniform-block count
\* and the transform-feedback varyings count and SEPARATE_ATTRIBS for the
\* transform-feedback buffer mode, and for every other parameter, as for every
\* parameter on the newer tier, the value the native program-parameter query gives.
C20_GetParameterDefaultsOnOlderTier ==
  op = "getParameter" =>
    IF ~native.webgl2 /\ args.pname \in NewerTierParameters
      THEN IF args.pname = TRANSFORM_FEEDBACK_BUFFER_MODE
             THEN returned = SEPARATE_ATTRIBS
             ELSE returned = 0
      ELSE returned = GetProgramParameter(native, args.pname)

\* The names of the active uniforms the native context reports, array suffix stripped.
NativeUniformNames ==
  { ParseUniformName(native.activeUniforms[i]).name : i \in 1 .. Len(native.activeUniforms) }

\* C11: once the handle is created and linked, uniformSetters has a setter under
\* the stripped name of every active uniform the native context reports, on
\* either API tier, and setUniforms on such a name invokes that setter.
C11_SetterForEveryActiveUniform ==
  phase = "linked" =>
    /\ DOMAIN uniformSetters = NativeUniformNames
    /\ op = "setUniforms" =>
         \A k \in 1 .. Len(args.uniforms) :
           args.uniforms[k].name \in NativeUniformNames =>
             \E c \in 1 .. Len(calls) :
               calls[c].cmd = "setUniform" /\ calls[c].name = args.uniforms[k].name

\* C12: creating the handle succeeds exactly when the native validate step
\* reports success; when it fails an error is raised, the attribute-location
\* and uniform-setter maps stay empty and no call is made on the program.
C12_CreatedIffValidated ==
  phase # "uninit" =>
    /\ (phase = "linked") <=> native.validateStatus
    /\ phase = "failed" =>
         /\ threw = "Error linking"
         /\ attributeLocations = << >>
         /\ uniformSetters = << >>
         /\ history = << >>

\* C13: the attribute-location mapping built at link time is a bijection between
\* the active attribute names and 0 .. attributeCount - 1, and setBuffers,
\* unsetBuffers, setUniforms and draw leave it, the keys of uniformSetters and
\* attributeCount as handle creation built them.
C13_LocationsBijectiveAndStable ==
  phase = "linked" =>
    /\ AttributeNames = SeqRange(native.activeAttribs)
    /\ \A n, m \in AttributeNames : attributeLocations[n] = attributeLocations[m] => n = m
    /\ { attributeLocations[n] : n \in AttributeNames } = 0 .. attributeCount - 1
    /\ attributeLocations = GetAttributeLocations(native)
    /\ attributeCount = GetAttributeCount(native)
    /\ DOMAIN uniformSetters = DOMAIN GetUniformSetters(native)

\* The names of a buffer map (name -> buffer) that are attributes located at slot i.
SuppliedAt(buffers, i) ==
  { n \in AttributeBuffers(buffers) : attributeLocations[n] = i }

\* The native commands of a call address the slots in ascending order and bind
\* the index buffer after all of them.
SlotsAscendingThenElements ==
  /\ \A j, k \in 1 .. Len(calls) :
       (j < k /\ calls[j].cmd # "bindElements" /\ calls[k].cmd # "bindElements")
         => calls[j].slot <= calls[k].slot
  /\ \A k \in 1 .. Len(calls) : calls[k].cmd = "bindElements" => k = Len(calls)

\* C14: after a setBuffers call that returns, every slot below attributeCount is
\* enabled with the supplied buffer as data source and divisor 1 (instanced) or 0
\* if the map holds a buffer under the attribute located there, and disabled
\* otherwise; slots are visited in ascending order and the index buffer, if
\* any, is bound after all slots.
C14_SlotsFollowTheMap ==
  (op = "setBuffers" /\ threw = "none") =>
    /\ \A i \in 0 .. attributeCount - 1 :
         IF SuppliedAt(args.buffers, i) # {}
           THEN \E n \in SuppliedAt(args.buffers, i) :
                  /\ enabled[i]
                  /\ slotBuffer[i] = args.buffers[n]
                  /\ divisor[i] = IF args.buffers[n].layout.instanced THEN 1 ELSE 0
           ELSE ~enabled[i]
    /\ SlotsAscendingThenElements
    /\ IndexTargets(args.buffers) # {} =>
         (calls # << >> /\ calls[Len(calls)].cmd = "bindElements")

\* A first call binds b; a second call supplies an instanced buffer for a and an
\* index buffer but nothing for b: slot 0 is enabled with divisor 1, the slot
\* of b is disabled, and the index buffer is bound last.
C14_Witness ==
  /\ op = "setBuffers" /\ threw = "none"
  /\ Len(history) = 2
  /\ history[1].op = "setBuffers" /\ history[1].threw = "none"
  /\ "b" \in DOMAIN history[1].args.buffers
  /\ DOMAIN args.buffers = {"a", "i"}
  /\ args.buffers["a"].layout.instanced
  /\ enabled[0] /\ divisor[0] = 1
  /\ ~enabled[attributeLocations["b"]]
  /\ elementBinding.id = "shortIndices"
  /\ calls[Len(calls)].cmd = "bindElements"

\* C15: the draw parameters setBuffers produces depend on the buffers of the
\* current call only: isIndexed is true and indexType is the index buffer's
\* element type exactly when the current map contains an index-target buffer,
\* otherwise isIndexed is false and indexType is null, whatever earlier calls
\* bound; the parameters are those the same call produces on a freshly linked
\* program.
C15_DrawParamsFromCurrentCallOnly ==
  (op = "setBuffers" /\ threw = "none") =>
    /\ drawParams.isIndexed <=> IndexTargets(args.buffers) # {}
    /\ IF IndexTargets(args.buffers) # {}
         THEN \E n \in IndexTargets(args.buffers) :
                drawParams.indexType = args.buffers[n].layout.type
         ELSE drawParams.indexType = Null
    /\ drawParams = SetBuffersOn(FreshBindingState,
                                 InSomeOrder(args.buffers, DOMAIN args.buffers),
                                 TRUE, TRUE).drawParams

\* A first call binds an instanced buffer and a 32-bit index buffer; a second
\* call with a plain vertex buffer only yields isInstanced = isIndexed = false
\* and indexType = null.
C15_Witness ==
  /\ op = "setBuffers" /\ threw = "none"
  /\ Len(history) = 2
  /\ history[1].op = "setBuffers" /\ history[1].threw = "none"
  /\ DOMAIN history[1].args.buffers = {"a", "i"}
  /\ history[1].args.buffers["a"].layout.instanced
  /\ history[1].args.buffers["i"].layout.type = UNSIGNED_INT
  /\ DOMAIN args.buffers = {"a"}
  /\ ~args.buffers["a"].layout.instanced
  /\ drawParams = [isInstanced |-> FALSE, isIndexed |-> FALSE, indexType |-> Null]

\* After a checked setBuffers call that returns, every attribute is filled or warned.
FilledOrWarned ==
  (op = "setBuffers" /\ args.check /\ threw = "none") =>
    AttributeNames \subseteq (filledLocations \cup warn)

\* setBuffers fails on a binding conflict only, never for an attribute left out.
MissingAttributeNeverFails ==
  (op = "setBuffers" /\ threw # "none") => BindingConflict(args.buffers)

\* An unchecked setBuffers call logs no 'not supplied' warning and adds no
\* attribute name to the warned names.
UncheckedCallWarnsNoAttribute ==
  (op' = "setBuffers" /\ ~args'.check) =>
    /\ \A n \in BufferNames : logged'[<<NOT_SUPPLIED, n>>] = logged[<<NOT_SUPPLIED, n>>]
    /\ (warn' \ warn) \cap AttributeNames = {}

\* C16: after every setBuffers call with check=true that returns, each attribute
\* name is in filledLocations or in the warned names; a missing attribute never
\* makes setBuffers fail; with check=false no 'not supplied' warning is logged
\* and the warned names gain no attribute name.
C16_CheckedCallFillsOrWarns ==
  /\ []FilledOrWarned
  /\ []MissingAttributeNeverFails
  /\ [][UncheckedCallWarnsNoAttribute]_vars

\* An unchecked call that leaves b out logs nothing; the checked call after it,
\* leaving b out again, returns with a filled and b warned about once.
C16_Witness ==
  /\ op = "setBuffers" /\ threw = "none" /\ args.check
  /\ Len(history) = 2
  /\ history[1].op = "setBuffers" /\ history[1].threw = "none"
  /\ ~history[1].args.check
  /\ DOMAIN history[1].args.buffers = {"a"}
  /\ DOMAIN args.buffers = {"a"}
  /\ "a" \in filledLocations
  /\ "b" \in warn /\ "b" \notin filledLocations
  /\ logged[<<NOT_SUPPLIED, "b">>] = 1

\* Every call made so far is a setBuffers call that returned.
OnlySuccessfulSetBuffers ==
  \A k \in 1 .. Len(history) : history[k].op = "setBuffers" /\ history[k].threw = "none"

\* C17: after any sequence of successful setBuffers calls, with or without
\* clear, every name recorded in filledLocations has its attribute slot enabled
\* in the context.
C17_FilledImpliesEnabled ==
  OnlySuccessfulSetBuffers =>
    \A n \in filledLocations : enabled[attributeLocations[n]]

\* The vertex-binding state of the context.
VertexBindingState ==
  [enabled |-> enabled, slotBuffer |-> slotBuffer, divisor |-> divisor,
   elementBinding |-> elementBinding]

\* C18: a setBuffers call that fails with a binding-conflict error issues no
\* native binding command: no slot is enabled or disabled, no buffer attached,
\* no divisor set and the index-buffer binding is unchanged, so the context's
\* vertex-binding state is the one from before the call.
C18_FailedSetBuffersBindsNothing ==
  [][(op' = "setBuffers" /\ threw' # "none") =>
       /\ BindingConflict(args'.buffers)
       /\ calls' = << >>
       /\ VertexBindingState' = VertexBindingState]_vars

\* A first call binds a and an index buffer; the second call supplies a buffer
\* for b but puts an index buffer under a, fails, and leaves slot 0 enabled, the
\* slot of b disabled and the index buffer of the first call bound.
C18_Witness ==
  /\ op = "setBuffers" /\ threw # "none"
  /\ Len(history) = 2
  /\ history[1].op = "setBuffers" /\ history[1].threw = "none"
  /\ DOMAIN history[1].args.buffers = {"a", "i"}
  /\ DOMAIN args.buffers = {"a", "b"}
  /\ args.buffers["a"].target = ELEMENT_ARRAY_BUFFER
  /\ args.buffers["b"].target = ARRAY_BUFFER
  /\ calls = << >>
  /\ enabled[0]
  /\ ~enabled[attributeLocations["b"]]
  /\ elementBinding = history[1].args.buffers["i"]
  /\ elementBinding.target = ELEMENT_ARRAY_BUFFER
====
